---- MODULE Spec2Model ----
(***************************************************************************)
(* Model of the label image pipeline of the Sticker Factory                *)
(* (src/image_utils.py).  The pipeline is a set of pure functions on PIL   *)
(* images; each function is an operator below, computed as the Python code *)
(* computes it, and each action applies one function to the loaded image   *)
(* with parameters drawn from bounded sets and records the call and its    *)
(* outcome.                                                                *)
(*                                                                         *)
(* An image is a record [mode, width, height, data].  data is the row-major*)
(* sequence of samples of a grayscale ("L", 0..255) or 1-bit ("1", 0..1)   *)
(* image; colour samples and samples produced by resampling or dithering   *)
(* are not tracked and are written NoData.                                 *)
(***************************************************************************)
EXTENDS Integers, Sequences, FiniteSets, TLC

VARIABLES image, op, args, out, job, session, now, probes,
          stats_file, record_calls, history

vars == <<image, op, args, out, job, session, now, probes,
         stats_file, record_calls, history>>

(* The state of the printer cache of printit.py, which no pipeline call    *)
(* touches.                                                                *)
printer_vars == <<session, now, probes>>

(* The state of the print statistics of stats_utils.py: the file           *)
(* print_stats.json, the record_print calls in progress, and the record of *)
(* the calls made so far.                                                  *)
stats_vars == <<stats_file, record_calls, history>>

(***************************************************************************)
(* Bounds of the model.                                                    *)
(***************************************************************************)
MaxW == 3
MaxH == 3
MaxLW == 3
MaxMM == 2
MaxRows == 3
MaxPixels == 2
MaxBorder == 2
MaxElapsed == 35
MaxCalls == 3
MaxPrinters == 3
MaxTabs == 3

(* Program constants. *)
DefaultDPI == 300
MaxSample == 255
Black == 0
White == 255
PreviewMaxWidth == 300
TileSpacing == 10
RecheckSeconds == 30
MaxStats == 10000

(* time.time() at the first run of the script; any value above 30 behaves  *)
(* the same.                                                               *)
Epoch == 1000

NoData == <<>>

(* Sizes of colour images; 11 is kept because a 11 x 11 source on a label *)
(* of width 15 is a case where double arithmetic loses a pixel.           *)
Widths == (1..MaxW) \cup {11}
Heights == (1..MaxH) \cup {11}
(* 696 pixels is the printable width of the 62 mm label. *)
LabelWidths == (1..MaxLW) \cup {11, 15, 696}
WidthsMM == (0..MaxMM) \cup {50}
DPIs == {72, DefaultDPI}
RowCounts == 1..MaxRows
Samples == {0, 127, 128, MaxSample}
Levels == 0..MaxSample
Points == {0, 1, 100, 127, 128, 200, 254, MaxSample}
BorderWidths == 0..MaxBorder

(* The second buffer of img_concat_v (a QR code in the label tab). *)
SecondImages ==
    { [mode |-> "RGB", width |-> w, height |-> h, data |-> NoData] :
        w \in 1..MaxPixels, h \in 1..MaxPixels }

ColourImages ==
    { [mode |-> m, width |-> w, height |-> h, data |-> NoData] :
        m \in {"RGB", "RGBA"}, w \in Widths, h \in Heights }

PixelShapes ==
    { s \in (1..MaxPixels) \X (1..MaxPixels) : s[1] * s[2] <= MaxPixels }

GrayImages ==
    UNION { { [mode |-> "L", width |-> s[1], height |-> s[2], data |-> d] :
                d \in [1..(s[1] * s[2]) -> Samples] } : s \in PixelShapes }

Images == ColourImages \cup GrayImages

(***************************************************************************)
(* Arithmetic of the Python code.                                          *)
(***************************************************************************)

(* int(n / d) for d > 0: Python's int() truncates towards zero. *)
TruncDiv(n, d) == IF n >= 0 THEN n \div d ELSE -((-n) \div d)

Sign(n) == IF n > 0 THEN 1 ELSE IF n < 0 THEN -1 ELSE 0

(* The heights c in 0..9000 for which the IEEE-754 double product          *)
(* (300 / 696) * c falls just short of the exact integer 300 * c / 696, so *)
(* that int() returns one less (the preview scale of a 696 pixel label).   *)
PreviewShort ==
    { 290, 580, 1102, 1160, 2146, 2204, 2262, 2320, 4292,
      4350, 4408, 4466, 4524, 4582, 4640, 4698, 8526, 8584,
      8642, 8700, 8758, 8816, 8874, 8932, 8990 }

(* The triples <<a, b, c>> with b, c in 1..13 and a in 0..40 (or one of    *)
(* the pixel widths the modelled millimetre widths convert to) for which   *)
(* the double product (a / b) * c falls short of a * c / b in the same way.*)
FloatShort ==
    { <<15, 11, 11>>, <<15, 13, 13>>, <<30, 11, 11>>, <<30, 13, 13>> }
    \cup { <<300, 696, c>> : c \in PreviewShort }

(* int((a / b) * c) as computed in double precision. *)
FloatScaleIntDiv(a, b, c) == (a \div b) * c

FloatScale(a, b, c) ==
    LET exact == TruncDiv(a * c, b)
    IN  IF <<a, b, c>> \in FloatShort THEN exact - Sign(exact) ELSE exact

(* round(n / d) for d > 0, the nearest integer (no tie arises for the      *)
(* values used here).                                                      *)
RoundDiv(n, d) == IF n >= 0 THEN (2 * n + d) \div (2 * d)
                  ELSE -((2 * (-n) + d) \div (2 * d))

Abs(n) == IF n < 0 THEN -n ELSE n

(* target_width_px = int(target_width_mm / 25.4 * current_dpi) *)
MmToPxRounded(mm, dpi) == RoundDiv(mm * dpi * 10, 254)

MmToPx(mm, dpi) == TruncDiv(mm * dpi * 10, 254)

(***************************************************************************)
(* PIL operations used by the pipeline.                                    *)
(***************************************************************************)
Ok(img) == [ok |-> TRUE, image |-> img]
Fail(e) == [ok |-> FALSE, error |-> e]

(* Image.resize: returns a copy when the size is unchanged, raises         *)
(* ValueError("height and width must be > 0") for a size below 1, and      *)
(* otherwise returns a resampled image of the requested size.              *)
ResizeUnchecked(img, w, h) ==
    IF img.width = w /\ img.height = h THEN Ok(img)
    ELSE Ok([mode |-> img.mode, width |-> w, height |-> h, data |-> NoData])

Resize(img, w, h) ==
    IF img.width = w /\ img.height = h THEN Ok(img)
    ELSE IF w < 1 \/ h < 1 THEN Fail("ValueError")
    ELSE Ok([mode |-> img.mode, width |-> w, height |-> h, data |-> NoData])

(* Image.alpha_composite onto white followed by convert("RGB"). *)
FlattenAlpha(img) ==
    IF img.mode = "RGBA" THEN [img EXCEPT !.mode = "RGB"] ELSE img

(* image.convert("L") of a 1-bit image reads bit 0 as 0 and bit 1 as 255;  *)
(* a grayscale image is returned as it is.                                 *)
ConvertBitsKept(img) ==
    [img EXCEPT !.mode = "L"]

ConvertToL(img) ==
    IF img.mode = "1"
    THEN [img EXCEPT !.mode = "L",
                     !.data = [k \in DOMAIN img.data |-> img.data[k] * MaxSample]]
    ELSE [img EXCEPT !.mode = "L"]

(* grayscale.convert("1", dither=FLOYDSTEINBERG): same size, 1-bit. *)
Dither(img) == [img EXCEPT !.mode = "1", !.data = NoData]

(* image.crop((0, top, width, top + h)) *)
Crop(img, top, h) ==
    [mode |-> img.mode, width |-> img.width, height |-> h,
     data |-> IF img.data = NoData THEN NoData
              ELSE SubSeq(img.data, top * img.width + 1, (top + h) * img.width)]

(***************************************************************************)
(* preper_image                                                            *)
(***************************************************************************)
(* grayscale_image is the object passed in when `image` was never rebound: *)
(* no alpha flattening, no resize and no conversion to "L".                *)
GrayscaleIsArgument(img0, label_width) ==
    /\ img0.mode # "RGBA"
    /\ img0.width = label_width
    /\ img0.mode = "L"

preper_image(img0, label_width) ==
    LET img == FlattenAlpha(img0)
        new_height == FloatScale(label_width, img.width, img.height)
        r == IF img.width # label_width
             THEN Resize(img, label_width, new_height)
             ELSE Ok(img)
    IN  IF ~r.ok
        THEN [status |-> "error", error |-> r.error,
              resized |-> img.width # label_width,
              target |-> <<label_width, new_height>>]
        ELSE LET gs == IF r.image.mode # "L" THEN ConvertToL(r.image)
                       ELSE r.image
             IN  [status |-> "ok",
                  resized |-> img.width # label_width,
                  target |-> <<label_width, new_height>>,
                  grayscale_image |-> gs,
                  dithered_image |-> Dither(gs),
                  returns_arg |-> GrayscaleIsArgument(img0, label_width)]

(***************************************************************************)
(* split_image_into_tiles                                                  *)
(***************************************************************************)
RECURSIVE TilesFromGap(_, _, _, _, _, _)
TilesFromGap(img, i, y, tile_height, remainder, num_rows) ==
    IF i >= num_rows THEN <<>>
    ELSE LET current_tile_height ==
                 tile_height + (IF i = num_rows - 1 THEN remainder ELSE 0)
         IN  <<[top |-> y, tile |-> Crop(img, y, current_tile_height)]>>
             \o TilesFromGap(img, i + 1, y + tile_height + remainder,
                             tile_height, remainder, num_rows)

RECURSIVE TilesFrom(_, _, _, _, _, _)
(* The loop of split_image_into_tiles from iteration i with y_offset y;    *)
(* each tile is recorded with the row it starts at.                        *)
TilesFrom(img, i, y, tile_height, remainder, num_rows) ==
    IF i >= num_rows THEN <<>>
    ELSE LET current_tile_height ==
                 tile_height + (IF i = num_rows - 1 THEN remainder ELSE 0)
         IN  <<[top |-> y, tile |-> Crop(img, y, current_tile_height)]>>
             \o TilesFrom(img, i + 1, y + current_tile_height,
                          tile_height, remainder, num_rows)

TileHeightEven(height, num_rows) == (height + num_rows - 1) \div num_rows

TileHeight(height, num_rows) == height \div num_rows

split_image_into_tiles(img0, label_width, num_rows) ==
    LET img == FlattenAlpha(img0)
        new_height == FloatScale(label_width, img.width, img.height)
        r == IF img.width # label_width
             THEN Resize(img, label_width, new_height)
             ELSE Ok(img)
    IN  IF ~r.ok
        THEN [status |-> "error", error |-> r.error,
              resized |-> img.width # label_width,
              target |-> <<label_width, new_height>>]
        ELSE LET height == r.image.height
                 tile_height == TileHeight(height, num_rows)
                 remainder == height - num_rows * tile_height
             IN  [status |-> "ok",
                  resized |-> img.width # label_width,
                  target |-> <<label_width, new_height>>,
                  source |-> r.image,
                  tiles |-> TilesFrom(r.image, 0, 0, tile_height, remainder,
                                      num_rows)]

(***************************************************************************)
(* resize_image_to_width                                                   *)
(***************************************************************************)
(* new_image = Image.new("RGB", (label_width, new_height), (255, 255, 255)) *)
(* with the resized image pasted at ((label_width - target_width_px) // 2, *)
(* 0), when the resized image is narrower than the label.                  *)
PadToLabelFlushRight(resized, target_width_px, label_width, new_height) ==
    IF target_width_px < label_width
    THEN [image |-> [mode |-> "RGB", width |-> label_width,
                     height |-> new_height, data |-> NoData],
          padded |-> TRUE, fill |-> White,
          paste_x |-> label_width - target_width_px]
    ELSE [image |-> resized, padded |-> FALSE, fill |-> White, paste_x |-> 0]

PadToLabel(resized, target_width_px, label_width, new_height) ==
    IF target_width_px < label_width
    THEN [image |-> [mode |-> "RGB", width |-> label_width,
                     height |-> new_height, data |-> NoData],
          padded |-> TRUE, fill |-> White,
          paste_x |-> (label_width - target_width_px) \div 2]
    ELSE [image |-> resized, padded |-> FALSE, fill |-> White, paste_x |-> 0]

resize_image_to_width(img, target_width_mm, label_width, current_dpi) ==
    LET target_width_px == MmToPx(target_width_mm, current_dpi)
        new_height == FloatScale(target_width_px, img.width, img.height)
        r == Resize(img, target_width_px, new_height)
    IN  IF ~r.ok
        THEN [status |-> "error", error |-> r.error,
              target_width_px |-> target_width_px,
              new_height |-> new_height]
        ELSE LET p == PadToLabel(r.image, target_width_px, label_width,
                                 new_height)
             IN  [status |-> "ok",
                  target_width_px |-> target_width_px,
                  new_height |-> new_height,
                  padded |-> p.padded,
                  fill |-> p.fill,
                  paste_x |-> p.paste_x,
                  image |-> p.image]

(***************************************************************************)
(* Point operations.                                                       *)
(***************************************************************************)

(* image.point(lut): every sample s is replaced by lut[s]. *)
Point(img, lut) ==
    [img EXCEPT !.data = IF img.data = NoData THEN NoData
                         ELSE [k \in DOMAIN img.data |-> lut[img.data[k]]]]

(* image.point(lut, mode='1'): the 1-bit result holds bit 1 where the      *)
(* table value is non-zero and bit 0 where it is zero.                     *)
PointTo1(img, lut) ==
    [img EXCEPT !.mode = "1",
                !.data = IF img.data = NoData THEN NoData
                         ELSE [k \in DOMAIN img.data |->
                                 IF lut[img.data[k]] # 0 THEN 1 ELSE 0]]

(* lut = [255 if i > threshold else 0 for i in range(256)] *)
ThresholdLutInclusive(threshold) ==
    [i \in Levels |-> IF i >= threshold THEN MaxSample ELSE 0]

ThresholdLut(threshold) ==
    [i \in Levels |-> IF i > threshold THEN MaxSample ELSE 0]

apply_threshold(img, threshold) ==
    LET g == IF img.mode # "L" THEN ConvertToL(img) ELSE img
        lut == ThresholdLut(threshold)
    IN  [status |-> "ok", lut |-> lut, image |-> PointTo1(g, lut)]

(* One entry of the table built by apply_levels; ZeroDivision stands for   *)
(* the ZeroDivisionError of the division by white_point - black_point.     *)
ZeroDivision == -1

LevelsEntrySpanPlusOne(i, black_point, white_point) ==
    IF i <= black_point THEN 0
    ELSE IF i >= white_point THEN MaxSample
    ELSE ((i - black_point) * MaxSample) \div (white_point - black_point + 1)

LevelsEntryNoUpperClamp(i, black_point, white_point) ==
    IF i <= black_point THEN 0
    ELSE IF white_point - black_point = 0 THEN ZeroDivision
    ELSE ((i - black_point) * MaxSample) \div (white_point - black_point)

LevelsEntry(i, black_point, white_point) ==
    IF i <= black_point THEN 0
    ELSE IF i >= white_point THEN MaxSample
    ELSE IF white_point - black_point = 0 THEN ZeroDivision
    ELSE ((i - black_point) * MaxSample) \div (white_point - black_point)

LevelsLut(black_point, white_point) ==
    [i \in Levels |-> LevelsEntry(i, black_point, white_point)]

apply_levels(img, black_point, white_point) ==
    LET g == IF img.mode # "L" THEN ConvertToL(img) ELSE img
        lut == LevelsLut(black_point, white_point)
    IN  IF \E i \in Levels : lut[i] = ZeroDivision
        THEN [status |-> "error", error |-> "ZeroDivisionError"]
        ELSE [status |-> "ok", lut |-> lut, image |-> Point(g, lut)]

(* ImageOps.equalize of a grayscale image: the table is the scaled         *)
(* cumulative histogram, or the identity when the image has one level or   *)
(* too few pixels for a step of at least 1.                                *)
Histogram(img) ==
    [i \in Levels |-> Cardinality({k \in DOMAIN img.data : img.data[k] = i})]

RECURSIVE SumBelow(_, _)
SumBelow(h, i) == IF i = 0 THEN 0 ELSE h[i - 1] + SumBelow(h, i - 1)

Equalize(img) ==
    IF img.data = NoData THEN img
    ELSE LET h == Histogram(img)
             used == {i \in Levels : h[i] # 0}
             last == CHOOSE i \in used : \A j \in used : j <= i
             step == (Len(img.data) - h[last]) \div MaxSample
             lut == IF Cardinality(used) <= 1 \/ step = 0
                    THEN [i \in Levels |-> i]
                    ELSE [i \in Levels |->
                            ((step \div 2) + SumBelow(h, i)) \div step]
         IN  Point(img, lut)

apply_histogram_equalization(img, black_point, white_point) ==
    LET g == IF img.mode # "L" THEN ConvertToL(img) ELSE img
        leveled == apply_levels(g, black_point, white_point)
    IN  IF leveled.status # "ok" THEN leveled
        ELSE [status |-> "ok", lut |-> leveled.lut,
              leveled |-> leveled.image,
              image |-> Equalize(leveled.image)]

(***************************************************************************)
(* add_border                                                              *)
(***************************************************************************)

(* Image.new(mode, (w, h), fill): every sample is the fill value. *)
NewImage(mode, w, h, fill) ==
    [mode |-> mode, width |-> w, height |-> h,
     data |-> [k \in 1..(w * h) |-> fill]]

(* dst.paste(src, (x, y)): the samples of src replace those of dst in the  *)
(* box of src's size at (x, y), clipped to dst; the samples are tracked    *)
(* only when those of src are.                                             *)
Paste(dst, src, x, y) ==
    [dst EXCEPT !.data =
        IF src.data = NoData \/ dst.data = NoData THEN NoData
        ELSE [k \in 1..(dst.width * dst.height) |->
                LET px == (k - 1) % dst.width
                    py == (k - 1) \div dst.width
                IN  IF /\ x <= px /\ px < x + src.width
                       /\ y <= py /\ py < y + src.height
                    THEN src.data[(py - y) * src.width + (px - x) + 1]
                    ELSE dst.data[k]]]

(* image.width + 2*border_width *)
BorderedSizeOnce(n, border_width) == n + border_width

BorderedSize(n, border_width) == n + 2 * border_width

(* ImageOps.expand(image, border, fill): a new image of the same mode,     *)
(* larger by the border on every side, filled, with the image pasted at    *)
(* (border, border).                                                       *)
Expand(img, border, fill) ==
    Paste(NewImage(img.mode, BorderedSize(img.width, border),
                   BorderedSize(img.height, border), fill),
          img, border, border)

add_border(img, border_width) ==
    LET bordered ==
            IF img.mode = "1"
            THEN Paste(NewImage("1", BorderedSize(img.width, border_width),
                                BorderedSize(img.height, border_width), Black),
                       img, border_width, border_width)
            ELSE Expand(img, border_width, Black)
    IN  [status |-> "ok", input |-> img, image |-> bordered,
         fill |-> Black, paste |-> <<border_width, border_width>>,
         returns_arg |-> FALSE]

(***************************************************************************)
(* img_concat_v                                                            *)
(***************************************************************************)
Box(x, y, w, h) == [x |-> x, y |-> y, width |-> w, height |-> h]

(* im1.height + image_width *)
ConcatHeightOfIm2(im1, im2, image_width) == im1.height + im2.height

ConcatHeight(im1, im2, image_width) == im1.height + image_width

img_concat_v(im1, im2, image_width) ==
    LET dst == [mode |-> "RGB", width |-> im1.width,
                height |-> ConcatHeight(im1, im2, image_width),
                data |-> NoData]
        r == Resize(im2, image_width, image_width)
    IN  IF ~r.ok
        THEN [status |-> "error", error |-> r.error]
        ELSE [status |-> "ok", image |-> dst,
              boxes |-> <<Box(0, 0, im1.width, im1.height),
                          Box(0, im1.height, r.image.width, r.image.height)>>,
              returns_arg |-> FALSE]

(***************************************************************************)
(* create_tile_preview                                                     *)
(***************************************************************************)

(* int(x * preview_scale) with preview_scale = min(1.0, 300 / label_width) *)
PreviewScaled(x, label_width) ==
    IF PreviewMaxWidth >= label_width THEN x
    ELSE FloatScale(PreviewMaxWidth, label_width, x)

RECURSIVE MaxTileHeight(_)
MaxTileHeight(tiles) ==
    IF Len(tiles) = 1 THEN tiles[1].height
    ELSE LET m == MaxTileHeight(Tail(tiles))
         IN  IF tiles[1].height > m THEN tiles[1].height ELSE m

(* preview_tile_height * num_tiles + (10 * (num_tiles - 1)) *)
PreviewHeightNoSpacing(preview_tile_height, num_tiles) ==
    preview_tile_height * num_tiles

PreviewHeight(preview_tile_height, num_tiles) ==
    preview_tile_height * num_tiles + TileSpacing * (num_tiles - 1)

RECURSIVE PlaceTiles(_, _, _, _)
(* The paste loop from tile i at y_offset y: the boxes the scaled tiles    *)
(* are pasted into, or the error of a resize.                              *)
PlaceTiles(tiles, i, y, label_width) ==
    IF i > Len(tiles) THEN [ok |-> TRUE, boxes |-> <<>>]
    ELSE LET r == Resize(tiles[i], PreviewScaled(label_width, label_width),
                         PreviewScaled(tiles[i].height, label_width))
         IN  IF ~r.ok THEN r
             ELSE LET rest == PlaceTiles(tiles, i + 1,
                                         y + r.image.height + TileSpacing,
                                         label_width)
                  IN  IF ~rest.ok THEN rest
                      ELSE [ok |-> TRUE,
                            boxes |-> <<Box(0, y, r.image.width,
                                            r.image.height)>> \o rest.boxes]

create_tile_preview(tiles, label_width) ==
    IF tiles = <<>> THEN [status |-> "error", error |-> "ValueError"]
    ELSE LET num_tiles == Len(tiles)
             preview_tile_width == PreviewScaled(label_width, label_width)
             preview_tile_height ==
                 PreviewScaled(MaxTileHeight(tiles), label_width)
             preview_height == PreviewHeight(preview_tile_height, num_tiles)
             placed == PlaceTiles(tiles, 1, 0, label_width)
         IN  IF ~placed.ok
             THEN [status |-> "error", error |-> placed.error]
             ELSE [status |-> "ok",
                   image |-> [mode |-> "RGB", width |-> preview_tile_width,
                              height |-> preview_height, data |-> NoData],
                   fill |-> White,
                   preview_tile_height |-> preview_tile_height,
                   boxes |-> placed.boxes,
                   returns_arg |-> FALSE]

(***************************************************************************)
(* Tiling tab (src/tabs/tiling.py)                                         *)
(***************************************************************************)

(* determine_tile_rows: "Always return 2 rows to save paper." *)
determine_tile_rows_by_aspect(img, label_width) ==
    IF img.height > img.width THEN 3 ELSE 2

determine_tile_rows(img, label_width) == 2

(* render, from the loaded image to the preview: the row count, the tiles  *)
(* and the preview; an exception of either call ends the run.              *)
tiling_render(img, label_width) ==
    LET num_rows == determine_tile_rows(img, label_width)
        split == split_image_into_tiles(img, label_width, num_rows)
        tiles == [i \in DOMAIN split.tiles |-> split.tiles[i].tile]
        preview == create_tile_preview(tiles, label_width)
    IN  IF split.status # "ok"
        THEN [status |-> "error", error |-> split.error,
              num_rows |-> num_rows]
        ELSE IF preview.status # "ok"
        THEN [status |-> "error", error |-> preview.error,
              num_rows |-> num_rows]
        ELSE [status |-> "ok", num_rows |-> num_rows, tiles |-> tiles,
              preview_image |-> preview.image]

(* if success_count == len(tiles): st.success(...) else: st.warning(...) *)
AllPrintedIfAny(success_count, num_tiles) == success_count > 0

AllPrinted(success_count, num_tiles) == success_count = num_tiles

(***************************************************************************)
(* Printer cache (src/printit.py)                                          *)
(***************************************************************************)
PrinterA == [name |-> "A", status |-> "Waiting to receive",
             label_type |-> "62"]
PrinterB == [name |-> "B", status |-> "unknown", label_type |-> "unknown"]

(* What find_and_parse_printer can return. *)
DiscoveryResults == { <<>>, <<PrinterA>>, <<PrinterA, PrinterB>> }

(* The seconds that pass between two runs of the script. *)
TickSizes == {1, RecheckSeconds + 1}

(* if "cached_printers" not in st.session_state: ... *)
InitSession(s) ==
    IF s.set THEN s
    ELSE [set |-> TRUE, cached_printers |-> <<>>, last_printer_check |-> 0]

(* current_time - last_printer_check > 30 or not cached_printers *)
NeedsRefresh(s, current_time) ==
    \/ current_time - s.last_printer_check > RecheckSeconds
    \/ s.cached_printers = <<>>

(* The three branches after find_and_parse_printer returned. *)
RefreshedOverwrite(s, new_printers, current_time) ==
    [s EXCEPT !.cached_printers = new_printers,
              !.last_printer_check = current_time]

Refreshed(s, new_printers, current_time) ==
    IF new_printers # <<>>
    THEN [s EXCEPT !.cached_printers = new_printers,
                   !.last_printer_check = current_time]
    ELSE IF s.cached_printers = <<>>
    THEN [s EXCEPT !.cached_printers = <<>>,
                   !.last_printer_check = current_time]
    ELSE s

(* The record of the calls of find_and_parse_printer: the result of the    *)
(* latest call, the cache it found, and the times of the latest two calls  *)
(* made while the cache was not empty.                                     *)
Probed(log, s, new_printers, current_time) ==
    [found |-> new_printers,
     before |-> s.cached_printers,
     at |-> IF s.cached_printers = <<>> THEN log.at
            ELSE IF Len(log.at) < 2 THEN Append(log.at, current_time)
            ELSE <<log.at[2], current_time>>]

(***************************************************************************)
(* Print statistics (src/stats_utils.py)                                   *)
(***************************************************************************)
(* The file print_stats.json is absent, or holds the list json.dump wrote, *)
(* or has been opened for writing (which truncates it) and not yet         *)
(* written.  A record is a dict of three strings and json.load returns the *)
(* list json.dump was given, so the stored text is written as the list.    *)
NoFile == [state |-> "missing"]
Truncated == [state |-> "truncated"]
Stored(stats) == [state |-> "json", stats |-> stats]

(* The record of one print; timestamp stands for                           *)
(* datetime.now().isoformat().                                             *)
Record(timestamp, printer_name, printer_model) ==
    [timestamp |-> timestamp, printer_name |-> printer_name,
     printer_model |-> printer_model]

(* The n records the file holds before the first modelled call, oldest     *)
(* first, all written before Epoch.                                        *)
StoredBefore(n) == [i \in 1..n |-> Record(Epoch - 1 - (n - i), "A", "")]

InitialLengths == {0, 1, MaxStats - 1, MaxStats}
InitialFiles == {NoFile} \cup { Stored(StoredBefore(n)) : n \in InitialLengths }

(* The arguments of record_print: the printer's name and its model, which  *)
(* may be left out.                                                        *)
None == "None"
RecordPrintArgs == { <<"A", None>>, <<"B", "QL-570">> }

(* The Streamlit sessions, each running the script in a thread of its own. *)
SessionIds == {1, 2}
NoCalls == [s \in SessionIds |-> [pc |-> "idle"]]
NoHistory ==
    [initial |-> 0, records |-> <<>>, given |-> <<>>, overlapped |-> FALSE]

(* An absent file and a file json.load cannot parse both give []. *)
load_stats(file) == IF file.state = "json" THEN file.stats ELSE <<>>

(* stats[:10000] *)
KeepFirst(stats) ==
    IF Len(stats) > MaxStats
    THEN SubSeq(stats, 1, MaxStats)
    ELSE stats

KeepLast(stats) ==
    IF Len(stats) > MaxStats
    THEN SubSeq(stats, Len(stats) - MaxStats + 1, Len(stats))
    ELSE stats

(* record_print up to the call of save_stats: the list it is about to      *)
(* save.                                                                   *)
record_print(file, timestamp, printer_name, printer_model) ==
    LET stats == load_stats(file)
        record == Record(timestamp, printer_name,
                         IF printer_model = None THEN "" ELSE printer_model)
    IN  [record |-> record, stats |-> KeepLast(Append(stats, record))]

(***************************************************************************)
(* Label tab (src/tabs/label.py): the QR code block of render              *)
(***************************************************************************)
QrUrls == {"", "https://example.org"}
Texts == {"", "write something"}

(* img is the rendered text, imgqr the QR code of qrurl; shown lists the   *)
(* images st.image displays and printed the images handed to print_image.  *)
(* Nothing is rendered for an empty text.  PIL images are always true, so  *)
(* the branch 'imgqr and not (img)' is never taken.                        *)
label_render(img, label_width, text, qrurl, imgqr, pressed) ==
    IF text = ""
    THEN [status |-> "ok", shown |-> <<>>, printed |-> <<>>]
    ELSE IF qrurl # ""
    THEN LET concat == img_concat_v(img, imgqr, label_width)
         IN  IF concat.status # "ok"
             THEN [status |-> "error", error |-> concat.error]
             ELSE [status |-> "ok", shown |-> <<concat.image>>,
                   printed |-> IF pressed THEN <<img>> ELSE <<>>]
    ELSE [status |-> "ok", shown |-> <<img>>,
          printed |-> IF pressed THEN <<img>> ELSE <<>>]

(***************************************************************************)
(* Sidebar and tabs of the script (src/printit.py)                         *)
(***************************************************************************)
Statuses == {"Waiting to receive", "unknown", "Printing state"}
LabelTypes == {"62", "unknown"}
PrinterNames == {"A", "B"}
DetectedPrinters ==
    [name : PrinterNames, status : Statuses, label_type : LabelTypes]

(* The lists get_cached_printers may return. *)
PrinterLists == UNION { [1..n -> DetectedPrinters] : n \in 0..MaxPrinters }

(* The outer condition of the loop over printers. *)
PassesStatus(p) ==
    \/ p.status = "Waiting to receive"
    \/ (p.status = "unknown" /\ p.label_type # "unknown")

(* No inner condition: every printer passing the outer one is appended. *)
PassesAnyLabelType(p) == TRUE

(* The inner condition of the loop. *)
PassesLabelType(p) == p.label_type # "unknown"

(* available_printers after the first i printers have been looked at. *)
RECURSIVE AvailableAfter(_, _)
AvailableAfter(printers, i) ==
    IF i = 0
    THEN <<>>
    ELSE LET before == AvailableAfter(printers, i - 1)
             p == printers[i]
         IN  IF PassesStatus(p)
             THEN IF PassesLabelType(p)
                  THEN Append(before, p.name)
                  ELSE before
             ELSE before

available_printers(printers) == AvailableAfter(printers, Len(printers))

TabNames == {"Label", "History", "FAQ"}
DefaultTabs ==
    <<"Label", "Sticker", "Sticker Pro", "Text2image", "Webcam", "Cat",
      "Dog", "History", "FAQ">>
TabLists == UNION { [1..n -> TabNames] : n \in 0..MaxTabs }

(* TABS_CONFIG with or without the key "enabled". *)
TabsConfigs ==
    { [has_enabled |-> FALSE, enabled |-> <<>>] }
        \cup { [has_enabled |-> TRUE, enabled |-> l] : l \in TabLists }

(* TABS_CONFIG.get("enabled", [...]) *)
ConfiguredTabs(tabs_config) ==
    IF tabs_config.has_enabled THEN tabs_config.enabled ELSE DefaultTabs

(* The list is returned as configured. *)
Unfiltered(enabled) == enabled

(* [tab for tab in enabled if tab != "History"] *)
RECURSIVE WithoutHistory(_)
WithoutHistory(enabled) ==
    IF enabled = <<>>
    THEN <<>>
    ELSE IF Head(enabled) # "History"
    THEN <<Head(enabled)>> \o WithoutHistory(Tail(enabled))
    ELSE WithoutHistory(Tail(enabled))

get_enabled_tabs(tabs_config, privacy_mode) ==
    LET enabled == ConfiguredTabs(tabs_config)
    IN  IF privacy_mode
        THEN IF \E i \in 1..Len(enabled) : enabled[i] = "History"
             THEN WithoutHistory(enabled)
             ELSE enabled
        ELSE enabled

(***************************************************************************)
(* State machine.                                                          *)
(***************************************************************************)
(* No call is in progress: the caller invokes one pipeline function at a  *)
(* time and takes its result before the next call.                        *)
Idle == op = "none"

(* No 'Print All Tiles' run is in progress. *)
NoJob == [state |-> "idle"]

(* The session state before the first run of the script, the clock of the  *)
(* first run, and no call of find_and_parse_printer made so far.           *)
NoSession == [set |-> FALSE]
NoProbes == [found |-> <<>>, before |-> <<>>, at |-> <<>>]

Init ==
    /\ image \in Images
    /\ op = "none"
    /\ args = [none |-> TRUE]
    /\ out = [status |-> "none"]
    /\ job = NoJob
    /\ session = NoSession
    /\ now = Epoch
    /\ probes = NoProbes
    /\ stats_file = NoFile
    /\ record_calls = NoCalls
    /\ history = NoHistory

PreperImage ==
    \E lw \in LabelWidths :
        /\ Idle
        /\ op' = "preper_image"
        /\ args' = [label_width |-> lw]
        /\ out' = preper_image(image, lw)
        /\ UNCHANGED <<image, job, printer_vars, stats_vars>>

SplitImageIntoTiles ==
    \E lw \in LabelWidths, n \in RowCounts :
        /\ Idle
        /\ op' = "split_image_into_tiles"
        /\ args' = [label_width |-> lw, num_rows |-> n]
        /\ out' = split_image_into_tiles(image, lw, n)
        /\ UNCHANGED <<image, job, printer_vars, stats_vars>>

ResizeImageToWidth ==
    \E mm \in WidthsMM, lw \in LabelWidths, dpi \in DPIs :
        /\ Idle
        /\ op' = "resize_image_to_width"
        /\ args' = [target_width_mm |-> mm, label_width |-> lw,
                    current_dpi |-> dpi]
        /\ out' = resize_image_to_width(image, mm, lw, dpi)
        /\ UNCHANGED <<image, job, printer_vars, stats_vars>>

ApplyThreshold ==
    \E t \in Levels :
        /\ Idle
        /\ op' = "apply_threshold"
        /\ args' = [threshold |-> t]
        /\ out' = apply_threshold(image, t)
        /\ UNCHANGED <<image, job, printer_vars, stats_vars>>

(* The caller thresholds the 1-bit result of apply_threshold once more at  *)
(* the same cutoff.                                                        *)
ApplyThresholdAgain ==
    /\ op = "apply_threshold"
    /\ out.status = "ok"
    /\ op' = "apply_threshold_again"
    /\ args' = args
    /\ out' = [apply_threshold(out.image, args.threshold)
                 EXCEPT !.status = "ok"] @@ [first |-> out.image]
    /\ UNCHANGED <<image, job, printer_vars, stats_vars>>

ApplyLevels ==
    \E bp \in Points, wp \in Points :
        /\ Idle
        /\ op' = "apply_levels"
        /\ args' = [black_point |-> bp, white_point |-> wp]
        /\ out' = apply_levels(image, bp, wp)
        /\ UNCHANGED <<image, job, printer_vars, stats_vars>>

ApplyHistogramEqualization ==
    \E bp \in Points, wp \in Points :
        /\ Idle
        /\ op' = "apply_histogram_equalization"
        /\ args' = [black_point |-> bp, white_point |-> wp]
        /\ out' = apply_histogram_equalization(image, bp, wp)
        /\ UNCHANGED <<image, job, printer_vars, stats_vars>>

(* add_border on the loaded image. *)
AddBorder ==
    \E b \in BorderWidths :
        /\ Idle
        /\ op' = "add_border"
        /\ args' = [border_width |-> b]
        /\ out' = add_border(image, b)
        /\ UNCHANGED <<image, job, printer_vars, stats_vars>>

(* add_border on the 1-bit result of apply_threshold. *)
AddBorderToThresholded ==
    \E b \in BorderWidths :
        /\ op = "apply_threshold"
        /\ out.status = "ok"
        /\ op' = "add_border"
        /\ args' = [border_width |-> b]
        /\ out' = add_border(out.image, b)
        /\ UNCHANGED <<image, job, printer_vars, stats_vars>>

ImgConcatV ==
    \E im2 \in SecondImages, iw \in LabelWidths :
        /\ Idle
        /\ op' = "img_concat_v"
        /\ args' = [im2 |-> im2, image_width |-> iw]
        /\ out' = img_concat_v(image, im2, iw)
        /\ UNCHANGED <<image, job, printer_vars, stats_vars>>

(* create_tile_preview on the tiles split_image_into_tiles returned. *)
CreateTilePreview ==
    /\ op = "split_image_into_tiles"
    /\ out.status = "ok"
    /\ op' = "create_tile_preview"
    /\ args' = [label_width |-> args.label_width,
                tiles |-> [i \in DOMAIN out.tiles |-> out.tiles[i].tile]]
    /\ out' = create_tile_preview(args'.tiles, args.label_width)
    /\ UNCHANGED <<image, job, printer_vars, stats_vars>>

(* One run of the tiling tab on an uploaded image, which the tab converts *)
(* to RGB.                                                                 *)
TilingRender ==
    \E lw \in LabelWidths :
        /\ Idle
        /\ image.mode = "RGB"
        /\ op' = "tiling_render"
        /\ args' = [label_width |-> lw]
        /\ out' = tiling_render(image, lw)
        /\ UNCHANGED <<image, job, printer_vars, stats_vars>>

(* The 'Print All Tiles' button is pressed. *)
PressPrintAll ==
    /\ op = "tiling_render"
    /\ out.status = "ok"
    /\ job.state = "idle"
    /\ job' = [state |-> "printing", i |-> 0, success_count |-> 0,
               calls |-> <<>>, warnings |-> <<>>]
    /\ UNCHANGED <<image, op, args, out, printer_vars, stats_vars>>

(* One iteration of the loop: print_image is called with a copy of tile i  *)
(* and returns success or failure.                                         *)
PrintTile ==
    \E success \in BOOLEAN :
        /\ job.state = "printing"
        /\ job.i < Len(out.tiles)
        /\ job' = [job EXCEPT
                     !.i = @ + 1,
                     !.success_count = IF success THEN @ + 1 ELSE @,
                     !.calls = Append(@, [index |-> job.i,
                                          tile |-> out.tiles[job.i + 1],
                                          success |-> success]),
                     !.warnings = IF success THEN @
                                  ELSE Append(@, job.i + 1)]
        /\ UNCHANGED <<image, op, args, out, printer_vars, stats_vars>>

(* After the loop the result is reported. *)
FinishPrintAll ==
    /\ job.state = "printing"
    /\ job.i >= Len(out.tiles)
    /\ job' = [job EXCEPT !.state = "done"]
               @@ [message |-> IF AllPrinted(job.success_count, Len(out.tiles))
                               THEN "Successfully printed all"
                               ELSE "Printed",
                   reported |-> job.success_count]
    /\ UNCHANGED <<image, op, args, out, printer_vars, stats_vars>>

(* The label tab is rendered for the text image of the label's width, and *)
(* the print button below the preview is pressed or not.                  *)
LabelRender ==
    \E text \in Texts, qrurl \in QrUrls, imgqr \in SecondImages,
       pressed \in BOOLEAN :
        /\ Idle
        /\ image.mode = "RGB"
        /\ image.width \in LabelWidths
        /\ op' = "label_render"
        /\ args' = [text |-> text, qrurl |-> qrurl, imgqr |-> imgqr,
                    pressed |-> pressed]
        /\ out' = label_render(image, image.width, text, qrurl, imgqr,
                               pressed)
        /\ UNCHANGED <<image, job, printer_vars, stats_vars>>

(* The caller takes the result of the finished call. *)
Return ==
    /\ ~Idle
    /\ job.state # "printing"
    /\ op' = "none"
    /\ args' = [none |-> TRUE]
    /\ out' = [status |-> "none"]
    /\ job' = NoJob
    /\ UNCHANGED <<image, printer_vars, stats_vars>>

Next ==
    \/ PreperImage
    \/ SplitImageIntoTiles
    \/ ResizeImageToWidth
    \/ ApplyThreshold
    \/ ApplyThresholdAgain
    \/ ApplyLevels
    \/ ApplyHistogramEqualization
    \/ AddBorder
    \/ AddBorderToThresholded
    \/ ImgConcatV
    \/ CreateTilePreview
    \/ TilingRender
    \/ PressPrintAll
    \/ PrintTile
    \/ FinishPrintAll
    \/ LabelRender
    \/ Return

Spec == Init /\ [][Next]_vars

(***************************************************************************)
(* Printer cache: the runs of the script call get_cached_printers as time  *)
(* passes.                                                                 *)
(***************************************************************************)
InitPrinters ==
    /\ image = [mode |-> "RGB", width |-> 1, height |-> 1, data |-> NoData]
    /\ op = "none"
    /\ args = [none |-> TRUE]
    /\ out = [status |-> "none"]
    /\ job = NoJob
    /\ session = NoSession
    /\ now = Epoch
    /\ probes = NoProbes
    /\ stats_file = NoFile
    /\ record_calls = NoCalls
    /\ history = NoHistory

GetCachedPrinters ==
    \E new_printers \in DiscoveryResults :
        LET s == InitSession(session)
            current_time == now
        IN  /\ IF NeedsRefresh(s, current_time)
               THEN /\ session' = Refreshed(s, new_printers, current_time)
                    /\ probes' = Probed(probes, s, new_printers, current_time)
               ELSE /\ session' = s
                    /\ probes' = probes
            /\ UNCHANGED <<image, op, args, out, job, now, stats_vars>>

Tick ==
    \E d \in TickSizes :
        /\ now + d <= Epoch + MaxElapsed
        /\ now' = now + d
        /\ UNCHANGED <<image, op, args, out, job, session, probes,
                       stats_vars>>

NextPrinters ==
    \/ GetCachedPrinters
    \/ Tick

SpecPrinters == InitPrinters /\ [][NextPrinters]_vars

(***************************************************************************)
(* Print statistics: two sessions call record_print, each when a print of  *)
(* its own succeeded.  A call reads the file, builds its list, opens the   *)
(* file for writing and writes the list; the module takes no lock, so the  *)
(* steps of two calls interleave freely.  Every call reads a later clock   *)
(* value than the call before it.                                          *)
(***************************************************************************)
InitStats ==
    /\ image = [mode |-> "RGB", width |-> 1, height |-> 1, data |-> NoData]
    /\ op = "none"
    /\ args = [none |-> TRUE]
    /\ out = [status |-> "none"]
    /\ job = NoJob
    /\ session = NoSession
    /\ now = Epoch
    /\ probes = NoProbes
    /\ stats_file \in InitialFiles
    /\ record_calls = NoCalls
    /\ history = [NoHistory EXCEPT !.initial = Len(load_stats(stats_file))]

(* record_print, lines 39 to 52. *)
RecordPrintLoad(s) ==
    \E a \in RecordPrintArgs :
        LET r == record_print(stats_file, now, a[1], a[2])
        IN  /\ record_calls[s].pc = "idle"
            /\ now < Epoch + MaxCalls
            /\ record_calls' =
                   [record_calls EXCEPT ![s] =
                       [pc |-> "save_stats", stats |-> r.stats]]
            /\ history' =
                   [history EXCEPT
                       !.records = Append(@, r.record),
                       !.given = Append(@, a[1]),
                       !.overlapped =
                           @ \/ \E t \in SessionIds \ {s} :
                                    record_calls[t].pc # "idle"]
            /\ now' = now + 1
            /\ UNCHANGED <<image, op, args, out, job, session, probes,
                           stats_file>>

(* save_stats: open(STATS_FILE, 'w') truncates the file. *)
SaveStatsOpen(s) ==
    /\ record_calls[s].pc = "save_stats"
    /\ record_calls' = [record_calls EXCEPT ![s].pc = "json.dump"]
    /\ stats_file' = Truncated
    /\ UNCHANGED <<image, op, args, out, job, printer_vars, history>>

(* save_stats: json.dump writes the list, and record_print returns. *)
SaveStatsDump(s) ==
    /\ record_calls[s].pc = "json.dump"
    /\ record_calls' = [record_calls EXCEPT ![s] = [pc |-> "idle"]]
    /\ stats_file' = Stored(record_calls[s].stats)
    /\ UNCHANGED <<image, op, args, out, job, printer_vars, history>>

NextStats ==
    \/ \E s \in SessionIds : RecordPrintLoad(s)
    \/ \E s \in SessionIds : SaveStatsOpen(s)
    \/ \E s \in SessionIds : SaveStatsDump(s)

SpecStats == InitStats /\ [][NextStats]_vars

(***************************************************************************)
(* Sidebar and tabs: a run of the script filters the printers it detected  *)
(* and lists the enabled tabs.                                             *)
(***************************************************************************)
AvailablePrinters ==
    \E printers \in PrinterLists :
        /\ Idle
        /\ op' = "available_printers"
        /\ args' = [printers |-> printers]
        /\ out' = [status |-> "ok",
                   available_printers |-> available_printers(printers)]
        /\ UNCHANGED <<image, job, printer_vars, stats_vars>>

GetEnabledTabs ==
    \E tabs_config \in TabsConfigs, privacy_mode \in BOOLEAN :
        /\ Idle
        /\ op' = "get_enabled_tabs"
        /\ args' = [TABS_CONFIG |-> tabs_config,
                    PRIVACY_MODE |-> privacy_mode]
        /\ out' = [status |-> "ok",
                   enabled |-> get_enabled_tabs(tabs_config, privacy_mode)]
        /\ UNCHANGED <<image, job, printer_vars, stats_vars>>

NextScript ==
    \/ AvailablePrinters
    \/ GetEnabledTabs
    \/ Return

SpecScript == InitPrinters /\ [][NextScript]_vars

(***************************************************************************)
(* Properties.                                                             *)
(***************************************************************************)
RECURSIVE SumTileHeights(_)
SumTileHeights(tiles) ==
    IF tiles = <<>> THEN 0
    ELSE Head(tiles).tile.height + SumTileHeights(Tail(tiles))

SplitDone == op = "split_image_into_tiles" /\ out.status = "ok"

(* C1: split_image_into_tiles on an image whose height after resizing is H *)
(* with N >= 1 rows returns exactly N tiles; the first N-1 tiles have      *)
(* height floor(H/N), the last has height H - (N-1)*floor(H/N), and the    *)
(* heights sum to H.                                                       *)
C1_TileHeights ==
    SplitDone =>
        LET H == out.source.height
            N == args.num_rows
        IN  /\ Len(out.tiles) = N
            /\ \A i \in 1..(N - 1) : out.tiles[i].tile.height = H \div N
            /\ out.tiles[N].tile.height = H - (N - 1) * (H \div N)
            /\ SumTileHeights(out.tiles) = H

C1_Witness ==
    /\ SplitDone
    /\ args.num_rows = 3
    /\ out.source.height = 11
    /\ out.tiles[3].tile.height = 5

(* C2: every buffer returned for printing has width equal to label_width:  *)
(* both outputs of preper_image, every tile of split_image_into_tiles and  *)
(* the result of resize_image_to_width, whether the millimetre-derived     *)
(* pixel width is below, equal to or above label_width.                    *)
C2_WidthIsLabelWidth ==
    /\ (op = "preper_image" /\ out.status = "ok") =>
           /\ out.grayscale_image.width = args.label_width
           /\ out.dithered_image.width = args.label_width
    /\ SplitDone =>
           \A i \in DOMAIN out.tiles :
               out.tiles[i].tile.width = args.label_width
    /\ (op = "resize_image_to_width" /\ out.status = "ok") =>
           out.image.width = args.label_width

(* C3: resize_image_to_width converts the millimetre width to pixels as    *)
(* round(target_width_mm / 25.4 * current_dpi); 50 mm at 300 DPI is 591.   *)
C3_MmToPxRounds ==
    op = "resize_image_to_width" =>
        /\ out.target_width_px
             = MmToPxRounded(args.target_width_mm, args.current_dpi)
        /\ (args.target_width_mm = 50 /\ args.current_dpi = DefaultDPI)
             => out.target_width_px = 591

(* C4: resizing preserves aspect ratio: for a source of size (w, h) and    *)
(* target width t the height produced by preper_image,                     *)
(* split_image_into_tiles and resize_image_to_width differs from           *)
(* round(t/w*h) by at most 1 pixel.                                        *)
C4_AspectRatio ==
    /\ (op = "preper_image" /\ out.status = "ok") =>
           Abs(out.grayscale_image.height
               - RoundDiv(args.label_width * image.height, image.width)) <= 1
    /\ SplitDone =>
           Abs(out.source.height
               - RoundDiv(args.label_width * image.height, image.width)) <= 1
    /\ (op = "resize_image_to_width" /\ out.status = "ok") =>
           Abs(out.image.height
               - RoundDiv(out.target_width_px * image.height, image.width)) <= 1

C4_Witness ==
    /\ op = "preper_image"
    /\ out.status = "ok"
    /\ out.resized
    /\ out.grayscale_image.height
         = RoundDiv(args.label_width * image.height, image.width) - 1

LevelsCall == op \in {"apply_levels", "apply_histogram_equalization"}

(* C5: apply_levels and apply_histogram_equalization called with           *)
(* black_point = white_point fail with an error and return no image.       *)
C5_EqualPointsFail ==
    (LevelsCall /\ args.black_point = args.white_point)
        => out.status = "error"

ResizeTarget ==
    IF op = "resize_image_to_width"
    THEN <<out.target_width_px, out.new_height>>
    ELSE out.target

ResizeAttempted ==
    \/ op = "resize_image_to_width"
    \/ op \in {"preper_image", "split_image_into_tiles"} /\ out.resized

(* C6: whenever the computed target width or height of a resize is <= 0    *)
(* the resize in resize_image_to_width, preper_image and                   *)
(* split_image_into_tiles fails with an error instead of returning a       *)
(* buffer.                                                                 *)
C6_NonPositiveTargetFails ==
    (ResizeAttempted /\ (ResizeTarget[1] <= 0 \/ ResizeTarget[2] <= 0))
        => out.status = "error"

C6_Witness ==
    /\ op = "split_image_into_tiles"
    /\ out.resized
    /\ out.target[1] > 0
    /\ out.target[2] = 0
    /\ out.status = "error"

(* C7: apply_threshold maps every sample s in 0..255 to white when         *)
(* s > threshold and to black when s <= threshold, for every threshold in  *)
(* 0..255, and leaves width and height unchanged.                          *)
C7_ThresholdCutoff ==
    op = "apply_threshold" =>
        /\ out.status = "ok"
        /\ \A s \in Levels :
               out.lut[s] = IF s > args.threshold THEN MaxSample ELSE 0
        /\ out.image.mode = "1"
        /\ out.image.width = image.width
        /\ out.image.height = image.height
        /\ image.mode = "L" =>
               /\ Len(out.image.data) = Len(image.data)
               /\ \A k \in DOMAIN image.data :
                      out.image.data[k]
                        = IF image.data[k] > args.threshold THEN 1 ELSE 0

C7_Witness ==
    /\ op = "apply_threshold"
    /\ image.mode = "L"
    /\ \E k \in DOMAIN image.data :
           image.data[k] = args.threshold /\ out.image.data[k] = 0
    /\ \E k \in DOMAIN image.data :
           image.data[k] = args.threshold + 1 /\ out.image.data[k] = 1

(* C8: apply_threshold is idempotent: thresholding the 1-bit result again  *)
(* at the same cutoff, the bits read back as samples 0 and 255, gives the  *)
(* same pixels.                                                            *)
C8_ThresholdIdempotent ==
    op = "apply_threshold_again" =>
        /\ out.image.mode = out.first.mode
        /\ out.image.width = out.first.width
        /\ out.image.height = out.first.height
        /\ out.image.data = out.first.data

C8_Witness ==
    /\ op = "apply_threshold_again"
    /\ \E k \in DOMAIN out.first.data : out.first.data[k] = 1
    /\ \E k \in DOMAIN out.first.data : out.first.data[k] = 0
    /\ out.image.data = out.first.data

(* C9: apply_levels with black_point = 0 and white_point = 255 is the      *)
(* identity on grayscale input: its table maps every sample i to i.        *)
C9_LevelsIdentity ==
    (op = "apply_levels" /\ args.black_point = 0
                         /\ args.white_point = MaxSample) =>
        /\ out.status = "ok"
        /\ \A i \in Levels : out.lut[i] = i
        /\ image.mode = "L" => out.image = image

C9_Witness ==
    /\ op = "apply_levels"
    /\ args.black_point = 0
    /\ args.white_point = MaxSample
    /\ image.mode = "L"
    /\ \E k \in DOMAIN image.data :
           image.data[k] = 127 /\ out.image.data[k] = 127

(* C10: apply_levels with 0 <= black_point < white_point <= 255 maps every *)
(* sample i <= black_point to 0, every i >= white_point to 255 and every   *)
(* i strictly between to floor((i - black_point) * 255 /                   *)
(* (white_point - black_point)); the table is non-decreasing and every     *)
(* entry lies in 0..255.                                                   *)
C10_LevelsMapping ==
    (op = "apply_levels" /\ args.black_point < args.white_point) =>
        LET bp == args.black_point
            wp == args.white_point
        IN  /\ out.status = "ok"
            /\ \A i \in Levels :
                   /\ i <= bp => out.lut[i] = 0
                   /\ i >= wp => out.lut[i] = MaxSample
                   /\ (bp < i /\ i < wp) =>
                          /\ out.lut[i] * (wp - bp) <= (i - bp) * MaxSample
                          /\ (i - bp) * MaxSample < (out.lut[i] + 1) * (wp - bp)
                   /\ out.lut[i] \in Levels
                   /\ i < MaxSample => out.lut[i] <= out.lut[i + 1]
            /\ \A k \in DOMAIN image.data :
                   out.image.data[k] = out.lut[image.data[k]]

C10_Witness ==
    /\ op = "apply_levels"
    /\ args.black_point = 100
    /\ args.white_point = 200
    /\ \E k \in DOMAIN image.data :
           image.data[k] = 127 /\ out.image.data[k] = 68

(* The sample of a tracked image at column x and row y (both from 0). *)
SampleAt(img, x, y) == img.data[y * img.width + x + 1]

(* C11: add_border with border width b >= 0 returns a buffer whose width   *)
(* and height are each exactly 2*b larger than the input's, for 1-bit      *)
(* inputs and every other mode alike, with the original at offset (b, b)   *)
(* and the added frame black.                                              *)
C11_BorderGrowsBy2b ==
    op = "add_border" =>
        LET b == args.border_width
            src == out.input
            dst == out.image
        IN  /\ out.status = "ok"
            /\ dst.mode = src.mode
            /\ dst.width = src.width + 2 * b
            /\ dst.height = src.height + 2 * b
            /\ out.paste = <<b, b>>
            /\ out.fill = 0
            /\ src.data # NoData =>
                   /\ Len(dst.data) = dst.width * dst.height
                   /\ \A x \in 0..(dst.width - 1), y \in 0..(dst.height - 1) :
                          IF /\ b <= x /\ x < b + src.width
                             /\ b <= y /\ y < b + src.height
                          THEN SampleAt(dst, x, y) = SampleAt(src, x - b, y - b)
                          ELSE SampleAt(dst, x, y) = 0

C11_Witness ==
    /\ op = "add_border"
    /\ args.border_width = 2
    /\ out.input.mode = "1"
    /\ out.input.width = 2
    /\ out.input.data = <<1, 0>>
    /\ out.image.width = 6
    /\ out.image.height = 5
    /\ SampleAt(out.image, 2, 2) = 1
    /\ SampleAt(out.image, 1, 2) = 0

(* C12: img_concat_v(im1, im2, image_width) returns a buffer of width      *)
(* im1.width and height im1.height + image_width for every size of im1 and *)
(* im2; im1 is pasted at (0, 0) and im2, forced to an image_width square,  *)
(* at (0, im1.height), so the two never overlap.                           *)
C12_ConcatSize ==
    op = "img_concat_v" =>
        /\ out.status = "ok"
        /\ out.image.width = image.width
        /\ out.image.height = image.height + args.image_width
        /\ out.boxes[1] = Box(0, 0, image.width, image.height)
        /\ out.boxes[2] = Box(0, image.height, args.image_width,
                              args.image_width)
        /\ out.boxes[1].y + out.boxes[1].height <= out.boxes[2].y
        /\ out.boxes[2].y + out.boxes[2].height = out.image.height

C12_Witness ==
    /\ op = "img_concat_v"
    /\ out.status = "ok"
    /\ args.im2.height # args.image_width
    /\ args.im2.width # args.im2.height
    /\ image.height = 3
    /\ args.image_width = 11
    /\ out.image.height = 14

(* C14: no pipeline operation changes the buffer passed to it, and every   *)
(* buffer it returns is a new buffer distinct from its arguments, also     *)
(* when the input is already grayscale and already label_width wide.       *)
C14_ReturnsNewBuffer ==
    (op \in {"preper_image", "add_border", "img_concat_v"}
        /\ out.status = "ok") => ~out.returns_arg

ResizeToWidthDone == op = "resize_image_to_width" /\ out.status = "ok"

(* C15: resize_image_to_width: when the millimetre-derived pixel width p   *)
(* is smaller than label_width the result is a white canvas of width       *)
(* label_width and the resized height with the resized image pasted at     *)
(* x = floor((label_width - p) / 2), so the left and right margins differ  *)
(* by at most 1 pixel; when p >= label_width no padding is applied.        *)
C15_CenterPadding ==
    ResizeToWidthDone =>
        LET p == out.target_width_px
            lw == args.label_width
            left == out.paste_x
            right == lw - p - out.paste_x
        IN  /\ out.padded <=> p < lw
            /\ out.padded =>
                   /\ out.image.mode = "RGB"
                   /\ out.image.width = lw
                   /\ out.image.height = out.new_height
                   /\ out.fill = 255
                   /\ 2 * left <= lw - p
                   /\ lw - p < 2 * left + 2
                   /\ left >= 0
                   /\ right >= left
                   /\ right - left <= 1
            /\ ~out.padded =>
                   /\ out.image.width = p
                   /\ out.image.height = out.new_height
                   /\ out.image.mode = image.mode

C15_Witness ==
    /\ ResizeToWidthDone
    /\ out.padded
    /\ args.label_width = 15
    /\ out.target_width_px = 2
    /\ out.paste_x = 6
    /\ out.image.width = 15

RECURSIVE TileData(_)
(* The samples of the tiles one after the other. *)
TileData(tiles) ==
    IF tiles = <<>> THEN <<>>
    ELSE Head(tiles).tile.data \o TileData(Tail(tiles))

(* C17: the tiles returned by split_image_into_tiles are a contiguous      *)
(* partition of the resized image in top-to-bottom order: tile i starts at *)
(* the row equal to the sum of the heights of the tiles before it, no row  *)
(* belongs to two tiles and no row is left out.                            *)
C17_TilesPartition ==
    SplitDone =>
        LET t == out.tiles
            H == out.source.height
        IN  /\ \A i \in DOMAIN t :
                   t[i].top = SumTileHeights(SubSeq(t, 1, i - 1))
            /\ \A y \in 0..(H - 1) :
                   Cardinality({ i \in DOMAIN t :
                       t[i].top <= y /\ y < t[i].top + t[i].tile.height }) = 1
            /\ \A i \in DOMAIN t :
                   /\ t[i].top >= 0
                   /\ t[i].top + t[i].tile.height <= H
                   /\ t[i].tile.width = out.source.width
            /\ out.source.data # NoData => TileData(t) = out.source.data

C17_Witness ==
    /\ SplitDone
    /\ args.num_rows = 3
    /\ out.source.height = 11
    /\ out.tiles[2].top = 3
    /\ out.tiles[3].top = 6
    /\ out.tiles[3].top + out.tiles[3].tile.height = 11

RECURSIVE SumBoxHeights(_)
SumBoxHeights(boxes) ==
    IF boxes = <<>> THEN 0
    ELSE Head(boxes).height + SumBoxHeights(Tail(boxes))

PreviewDone == op = "create_tile_preview" /\ out.status = "ok"

(* C16: create_tile_preview for N >= 1 tiles returns one column image      *)
(* whose width is at most 300 and at most label_width and whose height is  *)
(* N * P + 10 * (N - 1), P the scaled height of the tallest tile; tile i   *)
(* is pasted at the sum of the scaled heights of the tiles before it plus  *)
(* 10 per tile, so consecutive tiles are 10 pixels apart, in slice order,  *)
(* never overlap and all lie inside the canvas.                            *)
C16_PreviewLayout ==
    PreviewDone =>
        LET N == Len(args.tiles)
            lw == args.label_width
            b == out.boxes
            P == out.preview_tile_height
        IN  /\ out.image.width <= 300
            /\ out.image.width <= lw
            /\ lw <= 300 => out.image.width = lw
            /\ \A i \in 1..N : b[i].height <= P
            /\ \E i \in 1..N : b[i].height = P
            /\ out.image.height = N * P + 10 * (N - 1)
            /\ Len(b) = N
            /\ \A i \in 1..N :
                   /\ b[i].x = 0
                   /\ b[i].y = SumBoxHeights(SubSeq(b, 1, i - 1)) + 10 * (i - 1)
                   /\ b[i].width = out.image.width
                   /\ b[i].y >= 0
                   /\ b[i].y + b[i].height <= out.image.height
                   /\ b[i].height <= args.tiles[i].height
                   /\ lw <= 300 => b[i].height = args.tiles[i].height
            /\ \A i \in 1..(N - 1) :
                   b[i + 1].y = b[i].y + b[i].height + 10

C16_Witness ==
    /\ PreviewDone
    /\ Len(args.tiles) = 3
    /\ args.label_width = 696
    /\ out.image.width = 300
    /\ args.tiles[3].height > args.tiles[1].height
    /\ out.boxes[1].height > 0
    /\ out.boxes[1].height < args.tiles[1].height
    /\ out.boxes[3].y = 2 * out.boxes[1].height + 20
    /\ out.boxes[3].y + out.boxes[3].height = out.image.height

(* C13: determine_tile_rows returns 2 for every image and every            *)
(* label_width, so every run of the tiling tab splits the image into       *)
(* exactly 2 tiles.                                                        *)
C13_AlwaysTwoRows ==
    op = "tiling_render" =>
        /\ out.num_rows = 2
        /\ out.status = "ok" => Len(out.tiles) = 2

C13_Witness ==
    /\ op = "tiling_render"
    /\ out.status = "ok"
    /\ image.height = 11
    /\ image.width = 1
    /\ args.label_width = 3
    /\ Len(out.tiles) = 2

Successes(calls) == { k \in DOMAIN calls : calls[k].success }

(* C20: 'Print All Tiles' calls print_image exactly once per tile in       *)
(* top-to-bottom order, a failed tile does not stop the remaining tiles,   *)
(* and 'Successfully printed all' is shown if and only if every call       *)
(* returned success; otherwise the reported count is the number of calls   *)
(* that returned success.                                                  *)
C20_PrintAllTiles ==
    /\ job.state \in {"printing", "done"} =>
           /\ Len(job.calls) <= Len(out.tiles)
           /\ \A k \in DOMAIN job.calls :
                  /\ job.calls[k].index = k - 1
                  /\ job.calls[k].tile = out.tiles[k]
    /\ job.state = "done" =>
           /\ Len(job.calls) = Len(out.tiles)
           /\ job.message = "Successfully printed all"
                <=> Successes(job.calls) = DOMAIN job.calls
           /\ job.message # "Successfully printed all" =>
                  /\ job.message = "Printed"
                  /\ job.reported = Cardinality(Successes(job.calls))

C20_Witness ==
    /\ job.state = "done"
    /\ Len(job.calls) = 2
    /\ ~job.calls[1].success
    /\ job.calls[2].success
    /\ job.message = "Printed"
    /\ job.reported = 1

CacheNonEmpty == session.set /\ session.cached_printers # <<>>

(* After a call of find_and_parse_printer that found no printer while the  *)
(* cache held some, the cache still holds what it held.                    *)
KeptOnEmptyRefresh ==
    (probes.found = <<>> /\ probes.before # <<>>)
        => session.cached_printers = probes.before

C19_RecheckAtMostEvery30s ==
    Len(probes.at) = 2 => probes.at[2] - probes.at[1] > 30

(***************************************************************************)
(* Print statistics                                                        *)
(***************************************************************************)
(* Every record ever stored or recorded, in call order. *)
FullHistory == StoredBefore(history.initial) \o history.records

(* The records of a list, as a set. *)
Records(stats) == { stats[i] : i \in 1..Len(stats) }

AllReturned == \A s \in SessionIds : record_calls[s].pc = "idle"

(* Some record_print call has returned, none is in progress, and no call   *)
(* started while another was in progress.                                  *)
SequentialDone ==
    /\ AllReturned
    /\ history.records # <<>>
    /\ ~history.overlapped

Min(a, b) == IF a < b THEN a ELSE b

(* C21: after any sequence of sequential record_print calls the stored     *)
(* list has at most 10000 records, is the suffix of the full history in    *)
(* call order that one appended record per call leaves, and ends with the  *)
(* record just recorded.                                                   *)
C21_KeepsLast10000 ==
    SequentialDone =>
        /\ stats_file.state = "json"
        /\ LET stats == stats_file.stats
               full == FullHistory
               n == Len(stats)
           IN  /\ n <= MaxStats
               /\ n = Min(Len(full), MaxStats)
               /\ stats = SubSeq(full, Len(full) - n + 1, Len(full))
               /\ stats[n] = history.records[Len(history.records)]
               /\ stats[n].printer_name = history.given[Len(history.given)]
               /\ stats[n].timestamp = now - 1

(* Sequential calls have pushed the history past the cap. *)
C21_Witness ==
    /\ SequentialDone
    /\ Len(history.records) >= 2
    /\ Len(FullHistory) > MaxStats
    /\ Len(stats_file.stats) = MaxStats

(* C22: when record_print calls of different sessions interleave and the   *)
(* history is below the cap, the stored list afterwards contains every new *)
(* record and every record stored before.                                  *)
C22_NoRecordLost ==
    (/\ AllReturned
     /\ Len(FullHistory) < MaxStats)
        => /\ stats_file.state = "json" \/ history.records = <<>>
           /\ Records(FullHistory) \subseteq Records(load_stats(stats_file))

(***************************************************************************)
(* Label tab                                                               *)
(***************************************************************************)
LabelPrintedWithQr ==
    /\ op = "label_render"
    /\ out.status = "ok"
    /\ args.text # ""
    /\ args.qrurl # ""
    /\ args.pressed

(* C23: with a QR code URL entered, 'Print sticker+qr' sends to the        *)
(* printer the image shown in the preview, the concatenation of the text   *)
(* label and the QR code made by img_concat_v.                             *)
C23_PrintsPreview ==
    LabelPrintedWithQr =>
        /\ out.shown = <<img_concat_v(image, args.imgqr, image.width).image>>
        /\ out.printed = out.shown

(***************************************************************************)
(* Sidebar and tabs                                                        *)
(***************************************************************************)
(* The k-th smallest index of the set I of kept indices. *)
KeptIndex(I, k) == CHOOSE i \in I : Cardinality({ j \in I : j < i }) = k - 1

Offered(p) ==
    /\ p.label_type # "unknown"
    /\ p.status \in {"Waiting to receive", "unknown"}

(* C24: the available list holds, in the order of the detected list, the   *)
(* names of exactly the printers whose label_type is not 'unknown' and     *)
(* whose status is 'Waiting to receive' or 'unknown'; a printer of         *)
(* label_type 'unknown' is never among them.                               *)
C24_AvailablePrinters ==
    op = "available_printers" =>
        LET printers == args.printers
            available == out.available_printers
            I == { i \in 1..Len(printers) : Offered(printers[i]) }
        IN  /\ Len(available) = Cardinality(I)
            /\ \A k \in 1..Len(available) :
                   available[k] = printers[KeptIndex(I, k)].name
            /\ \A k \in 1..Len(available) :
                   \E i \in 1..Len(printers) :
                       /\ printers[i].name = available[k]
                       /\ printers[i].label_type # "unknown"

(* A waiting printer of unknown label type is left out between two offered *)
(* printers, the second of unknown status.                                 *)
C24_Witness ==
    /\ op = "available_printers"
    /\ Len(args.printers) = 3
    /\ args.printers[1] =
           [name |-> "B", status |-> "Waiting to receive", label_type |-> "62"]
    /\ args.printers[2].status = "Waiting to receive"
    /\ args.printers[2].label_type = "unknown"
    /\ args.printers[3] =
           [name |-> "A", status |-> "unknown", label_type |-> "62"]
    /\ out.available_printers = <<"B", "A">>

(* C25: get_enabled_tabs returns the configured tabs in their order, with  *)
(* every 'History' and nothing else removed when PRIVACY_MODE is true, and *)
(* unchanged when it is false.                                             *)
C25_EnabledTabs ==
    op = "get_enabled_tabs" =>
        LET configured == IF args.TABS_CONFIG.has_enabled
                          THEN args.TABS_CONFIG.enabled
                          ELSE DefaultTabs
            enabled == out.enabled
            I == { i \in 1..Len(configured) : configured[i] # "History" }
        IN  IF args.PRIVACY_MODE
            THEN /\ \A k \in 1..Len(enabled) : enabled[k] # "History"
                 /\ Len(enabled) = Cardinality(I)
                 /\ \A k \in 1..Len(enabled) :
                        enabled[k] = configured[KeptIndex(I, k)]
            ELSE enabled = configured

(* Privacy mode removed a 'History' from between two other tabs. *)
C25_Witness ==
    /\ op = "get_enabled_tabs"
    /\ args.PRIVACY_MODE
    /\ args.TABS_CONFIG.has_enabled
    /\ args.TABS_CONFIG.enabled = <<"FAQ", "History", "Label">>
    /\ out.enabled = <<"FAQ", "Label">>

====
